---- MODULE Spec2Model ----
(***************************************************************************)
(* Model of fmv-tracker: the ETL of src/etl/prepare_data.py (column-name   *)
(* normalisation, alias resolution, text cleaning, numeric parsing, the    *)
(* four dataset cleaners) and the load phase of src/app.py.                *)
(*                                                                         *)
(* Text is a TLA+ string; Len, \o, SubSeq, Head and Tail act on it         *)
(* character by character.  A pandas Series is a sequence of cells, a      *)
(* DataFrame a sequence of named columns.  Numbers are exact ratios in     *)
(* lowest terms; the binary rounding of float64 is not modelled.           *)
(* astype(str) follows pandas 1.x/2.x with object columns, where a missing *)
(* cell becomes the text "nan".                                            *)
(***************************************************************************)
EXTENDS Integers, Sequences, FiniteSets, TLC

VARIABLES
    pc,          \* position of the run
    label,       \* normalize_colname: the raw column label
    name1,       \* normalize_colname(label)
    name2,       \* normalize_colname(name1)
    raw,         \* to_number: the text of the cell
    parsed,      \* to_number: the cell of the resulting Series
    dataset,     \* the dataset whose cleaner runs
    table,       \* the DataFrame read from the file
    cleaned,     \* the cleaner's result on table
    recleaned,   \* the cleaner's result on its own output
    uploads,     \* app: what each st.file_uploader returned
    use_samples, \* app: the checkbox
    sample_dir,  \* app: the template present in SAMPLE_DIR, per dataset
    frames,      \* app: lines_df, disb_df, splaft_df, contacts_df
    errors       \* app: the calls of st.error

vars == <<pc, label, name1, name2, raw, parsed, dataset, table, cleaned, recleaned,
          uploads, use_samples, sample_dir, frames, errors>>

nameVars == <<label, name1, name2>>

numVars == <<raw, parsed>>

cleanVars == <<dataset, table, cleaned, recleaned>>

appVars == <<uploads, use_samples, sample_dir, frames, errors>>

(***************************************************************************)
(* Bounds of the model.                                                    *)
(***************************************************************************)
MaxLabelLen == 5

MaxNumLen == 5

\* the columns of an input table
MaxCols == 3

(***************************************************************************)
(* Characters and Python's str methods.                                    *)
(***************************************************************************)
Ch(s, i) == SubSeq(s, i, i)

CharsOf(s) == {Ch(s, i) : i \in 1..Len(s)}

LowerAlpha == "abcdefghijklmnopqrstuvwxyz"

UpperAlpha == "ABCDEFGHIJKLMNOPQRSTUVWXYZ"

DigitChars == CharsOf("0123456789")

\* \s of Python's re, and the characters str.strip() removes
Whitespace == {" ", "\t"}

UpperChars == CharsOf(UpperAlpha)

LowerChars == CharsOf(LowerAlpha)

\* the lower-case letter of each upper-case one
LowerOf ==
    [c \in UpperChars |->
        Ch(LowerAlpha, CHOOSE i \in 1..Len(UpperAlpha) : Ch(UpperAlpha, i) = c)]

\* the upper-case letter of each lower-case one
UpperOf ==
    [c \in LowerChars |->
        Ch(UpperAlpha, CHOOSE i \in 1..Len(LowerAlpha) : Ch(LowerAlpha, i) = c)]

\* str.lower() on one character
LowerChar(c) == IF c \in UpperChars THEN LowerOf[c] ELSE c

\* str.upper() on one character
UpperChar(c) == IF c \in LowerChars THEN UpperOf[c] ELSE c

RECURSIVE str_lower(_)
str_lower(s) ==
    IF s = "" THEN "" ELSE LowerChar(Head(s)) \o str_lower(Tail(s))

RECURSIVE str_upper(_)
str_upper(s) ==
    IF s = "" THEN "" ELSE UpperChar(Head(s)) \o str_upper(Tail(s))

RECURSIVE LStrip(_, _)
LStrip(s, chars) ==
    IF s # "" /\ Head(s) \in chars THEN LStrip(Tail(s), chars) ELSE s

RECURSIVE RStrip(_, _)
RStrip(s, chars) ==
    IF s # "" /\ Ch(s, Len(s)) \in chars
    THEN RStrip(SubSeq(s, 1, Len(s) - 1), chars)
    ELSE s

\* str.strip(chars)
StripChars(s, chars) == LStrip(RStrip(s, chars), chars)

\* str.strip()
str_strip(s) == StripChars(s, Whitespace)

\* re.sub("[chars]+", rep, s): every maximal run of chars becomes one rep
RECURSIVE SubRuns(_, _, _)
SubRuns(s, chars, rep) ==
    IF s = "" THEN ""
    ELSE IF Head(s) \in chars
         THEN rep \o SubRuns(LStrip(s, chars), chars, rep)
         ELSE Head(s) \o SubRuns(Tail(s), chars, rep)

\* re.sub("[^keep]+", "", s): only the characters of keep remain
RECURSIVE KeepOnly(_, _)
KeepOnly(s, keep) ==
    IF s = "" THEN ""
    ELSE (IF Head(s) \in keep THEN Head(s) ELSE "") \o KeepOnly(Tail(s), keep)

\* str.replace(old, new) for a one-character old
RECURSIVE str_replace(_, _, _)
str_replace(s, old, new) ==
    IF s = "" THEN ""
    ELSE (IF Head(s) = old THEN new ELSE Head(s)) \o str_replace(Tail(s), old, new)

\* old in s, for a one-character old (str.contains(old, regex=False))
str_contains(s, old) == old \in CharsOf(s)

\* every text of at most n characters of alphabet
RECURSIVE Texts(_, _)
Texts(alphabet, n) ==
    IF n = 0 THEN {""}
    ELSE LET shorter == Texts(alphabet, n - 1)
         IN  shorter \cup {s \o c : s \in shorter, c \in alphabet}

(***************************************************************************)
(* normalize_colname                                                       *)
(***************************************************************************)
\* the class [a-z0-9_] of the regular expression
ColnameChars == LowerChars \cup DigitChars \cup {"_"}

\* a plausible slip: underscores collapsed before the other characters go
normalize_colname_collapse_first(name) ==
    LET a == str_lower(str_strip(name))
        b == SubRuns(a, Whitespace, "_")
        c == SubRuns(b, {"_"}, "_")
        d == KeepOnly(c, ColnameChars)
    IN  StripChars(d, {"_"})

normalize_colname(name) ==
    LET a == str_lower(str_strip(name))
        b == SubRuns(a, Whitespace, "_")
        c == KeepOnly(b, ColnameChars)
        d == SubRuns(c, {"_"}, "_")
    IN  StripChars(d, {"_"})

(***************************************************************************)
(* Cells of a Series: missing, text, a number (an exact ratio in lowest     *)
(* terms, so that equal numbers are equal cells), an infinity, a date.     *)
(***************************************************************************)
NA == [k |-> "na"]

Txt(s) == [k |-> "txt", s |-> s]

Abs(n) == IF n < 0 THEN -n ELSE n

RECURSIVE GCD(_, _)
GCD(a, b) == IF b = 0 THEN Abs(a) ELSE GCD(b, a % b)

RECURSIVE Pow10(_)
Pow10(n) == IF n = 0 THEN 1 ELSE 10 * Pow10(n - 1)

\* the number n / d, d > 0, in lowest terms
Ratio(n, d) ==
    LET g == GCD(n, d)
    IN  [k |-> "num", n |-> n \div g, d |-> d \div g]

\* the decimal m * 10^-e
Num(m, e) == Ratio(m, Pow10(e))

\* float64 infinity, the result of x / 0
Inf(neg) == [k |-> "inf", neg |-> neg]

\* a Timestamp
Date(y, mo, d) == [k |-> "date", y |-> y, mo |-> mo, d |-> d]

RECURSIVE Repeat(_, _)
Repeat(c, n) == IF n <= 0 THEN "" ELSE c \o Repeat(c, n - 1)

\* str(n) for an int n >= 0
RECURSIVE DigitsOf(_)
DigitsOf(n) ==
    IF n < 10 THEN Ch("0123456789", n + 1)
    ELSE DigitsOf(n \div 10) \o Ch("0123456789", (n % 10) + 1)

\* int(s) for a string of digits; 0 for the empty string
RECURSIVE IntOf(_)
IntOf(s) ==
    IF s = "" THEN 0
    ELSE LET d == CHOOSE i \in 0..9 : Ch("0123456789", i + 1) = Ch(s, Len(s))
         IN  10 * IntOf(SubSeq(s, 1, Len(s) - 1)) + d

\* the longest prefix of s made of characters of chars
RECURSIVE Span(_, _)
Span(s, chars) ==
    IF s # "" /\ Head(s) \in chars THEN Head(s) \o Span(Tail(s), chars) ELSE ""

\* str(x) for an int64 cell
IntStr(n) == (IF n < 0 THEN "-" ELSE "") \o DigitsOf(Abs(n))

\* the decimal places of n / d for d a divisor of a power of ten
RECURSIVE DecimalPlaces(_)
DecimalPlaces(d) ==
    IF d = 1 THEN 0 ELSE 1 + DecimalPlaces(d \div GCD(d, 10))

\* str(x) for a float64 cell n / d with a finite decimal expansion,
\* Python's shortest repr: fixed notation when 1e-4 <= |x| < 1e16, else
\* d.ddde[+-]XX
FloatStr(n, d) ==
    LET e     == DecimalPlaces(d)
        m     == n * (Pow10(e) \div d)
        sign  == IF m < 0 THEN "-" ELSE ""
        ds    == DigitsOf(Abs(m))
        decpt == Len(ds) - e
        x     == decpt - 1
        mant  == Head(ds) \o (IF Len(ds) > 1 THEN "." \o Tail(ds) ELSE "")
        xs    == (IF x < 0 THEN "-" ELSE "+")
                 \o (IF Abs(x) < 10 THEN "0" ELSE "") \o DigitsOf(Abs(x))
    IN  IF m = 0 THEN "0.0"
        ELSE IF decpt < -3 \/ decpt > 16 THEN sign \o mant \o "e" \o xs
        ELSE IF decpt <= 0 THEN sign \o "0." \o Repeat("0", -decpt) \o ds
        ELSE IF e = 0 THEN sign \o ds \o ".0"
        ELSE sign \o SubSeq(ds, 1, decpt) \o "." \o SubSeq(ds, decpt + 1, Len(ds))

\* the dtype pd.to_numeric and read_csv give a column: int64 when every
\* cell is a whole number, float64 otherwise
IsInt64(series) ==
    \A i \in DOMAIN series : series[i].k = "num" /\ series[i].d = 1

\* Series.astype(str), cell i
astype_str(series, i) ==
    LET c == series[i]
    IN  CASE c.k = "na"  -> "nan"
          [] c.k = "txt" -> c.s
          [] c.k = "num" -> IF IsInt64(series) THEN IntStr(c.n)
                            ELSE FloatStr(c.n, c.d)

(***************************************************************************)
(* to_number                                                               *)
(***************************************************************************)
\* what the regular expression [^\d\-,\.] leaves
NumberChars == DigitChars \cup {"-", ",", "."}

\* a plausible slip: the parse stops at the first character it cannot use,
\* as C's strtod does, and keeps what it has read
to_numeric_prefix(s) ==
    LET neg  == s # "" /\ Head(s) = "-"
        body == IF neg THEN Tail(s) ELSE s
        ip   == Span(body, DigitChars)
        r1   == SubSeq(body, Len(ip) + 1, Len(body))
        dot  == r1 # "" /\ Head(r1) = "."
        fp   == IF dot THEN Span(Tail(r1), DigitChars) ELSE ""
        m    == IntOf(ip \o fp)
    IN  IF Len(ip) + Len(fp) = 0 THEN NA
        ELSE Num(IF neg THEN -m ELSE m, Len(fp))

\* pd.to_numeric(s, errors="coerce") on one string of NumberChars: an
\* optional sign, digits, an optional point, digits, at least one digit,
\* nothing after
to_numeric(s) ==
    LET neg  == s # "" /\ Head(s) = "-"
        body == IF neg THEN Tail(s) ELSE s
        ip   == Span(body, DigitChars)
        r1   == SubSeq(body, Len(ip) + 1, Len(body))
        dot  == r1 # "" /\ Head(r1) = "."
        fp   == IF dot THEN Span(Tail(r1), DigitChars) ELSE ""
        r2   == IF dot THEN SubSeq(r1, Len(fp) + 2, Len(r1)) ELSE r1
        m    == IntOf(ip \o fp)
    IN  IF r2 # "" \/ Len(ip) + Len(fp) = 0 THEN NA
        ELSE Num(IF neg THEN -m ELSE m, Len(fp))

\* lines 71-89 on one string: strip, drop the other characters, then the
\* comma rule
number_text(text) ==
    LET s          == KeepOnly(str_strip(text), NumberChars)
        has_comma  == str_contains(s, ",")
        has_dot    == str_contains(s, ".")
        only_comma == has_comma /\ ~has_dot
        both       == has_comma /\ has_dot
        s1         == IF only_comma
                      THEN str_replace(str_replace(s, ".", ""), ",", ".")
                      ELSE s
    IN  IF both THEN str_replace(s1, ",", "") ELSE s1

to_number(series) ==
    [i \in DOMAIN series |-> to_numeric(number_text(astype_str(series, i)))]

(***************************************************************************)
(* DataFrames: a sequence of columns, each a name and a Series.  A         *)
(* function that can raise returns [ok, df]; ok = FALSE is the exception.  *)
(***************************************************************************)
Col(name, cells) == [name |-> name, cells |-> cells]

Ok(df) == [ok |-> TRUE, df |-> df]

Raise == [ok |-> FALSE, df |-> <<>>]

\* the next statement runs only if the one before did not raise
Bind(r, F(_)) == IF r.ok THEN F(r.df) ELSE r

\* col in df.columns
HasColumn(df, col) == \E i \in DOMAIN df : df[i].name = col

\* df[col] is a Series only when one column bears the name; with several
\* it is a DataFrame
IsSeries(df, col) == Cardinality({i \in DOMAIN df : df[i].name = col}) = 1

GetSeries(df, col) == df[CHOOSE i \in DOMAIN df : df[i].name = col].cells

\* df[col] = series: every column of that name is overwritten, a new name
\* is appended on the right
SetColumn(df, col, cells) ==
    IF HasColumn(df, col)
    THEN [i \in DOMAIN df |-> IF df[i].name = col THEN Col(col, cells) ELSE df[i]]
    ELSE Append(df, Col(col, cells))

normalize_columns(df) ==
    [i \in DOMAIN df |-> Col(normalize_colname(df[i].name), df[i].cells)]

lines_aliases ==
    << <<"entidad", "esfs">>,
       <<"institucion", "esfs">>,
       <<"banco", "esfs">>,
       <<"tipo", "tipo_linea">>,
       <<"linea", "tipo_linea">>,
       <<"monto", "monto_aprobado">>,
       <<"monto_linea", "monto_aprobado">>,
       <<"saldo", "saldo_disponible">>,
       <<"saldo_linea", "saldo_disponible">>,
       <<"vigencia", "fecha_vigencia">>,
       <<"fecha_vencimiento", "fecha_vigencia">> >>

disbursements_aliases ==
    << <<"institucion", "ifi">>,
       <<"institucion_financiera", "ifi">>,
       <<"monto", "monto_desembolso">>,
       <<"desembolso", "monto_desembolso">>,
       <<"importe", "monto_desembolso">> >>

splaft_aliases ==
    << <<"entidad", "esfs">>,
       <<"institucion", "esfs">>,
       <<"fecha", "fecha_actualizacion">>,
       <<"actualizacion", "fecha_actualizacion">> >>

contacts_aliases ==
    << <<"entidad", "institucion">>,
       <<"esfs", "institucion">>,
       <<"ifi", "institucion">>,
       <<"mail", "correo">>,
       <<"email", "correo">>,
       <<"celular", "telefono">>,
       <<"telefono_contacto", "telefono">>,
       <<"fecha", "ultima_actualizacion">> >>

\* rename_map of line 42: keys and values normalized
rename_map(aliases) ==
    [i \in DOMAIN aliases |->
        <<normalize_colname(aliases[i][1]), normalize_colname(aliases[i][2])>>]

\* the rename_map of each cleaner's aliases, computed once
RenameMaps ==
    [aliases \in {lines_aliases, disbursements_aliases, splaft_aliases,
                  contacts_aliases} |-> rename_map(aliases)]

\* rename_map.get(c, c); of two keys that normalize alike the later stays
RenameTo(renames, c) ==
    LET hits == {i \in DOMAIN renames : renames[i][1] = c}
    IN  IF hits = {} THEN c
        ELSE renames[CHOOSE i \in hits : \A j \in hits : j <= i][2]

apply_aliases(df, aliases) ==
    LET d == normalize_columns(df)
        renames == RenameMaps[aliases]
    IN  [i \in DOMAIN d |-> Col(RenameTo(renames, d[i].name), d[i].cells)]

\* .str.strip().str.replace(r"\s+", " ", regex=True), then .str.upper()
clean_text_cell(text, upper) ==
    LET t == SubRuns(str_strip(text), Whitespace, " ")
    IN  IF upper THEN str_upper(t) ELSE t

clean_text(df, col, upper) ==
    IF ~HasColumn(df, col) THEN Ok(df)
    ELSE IF ~IsSeries(df, col) THEN Raise
    ELSE LET series == GetSeries(df, col)
             s == [i \in DOMAIN series |->
                      Txt(clean_text_cell(astype_str(series, i), upper))]
         IN  Ok(SetColumn(df, col, s))

(***************************************************************************)
(* coerce_date.  pd.to_datetime(errors="coerce") is modelled on the ISO    *)
(* form YYYY-MM-DD alone; any other text is taken as unparseable.          *)
(***************************************************************************)
IsDigits(s) == CharsOf(s) \subseteq DigitChars

DaysIn(y, mo) ==
    IF mo \in {4, 6, 9, 11} THEN 30
    ELSE IF mo # 2 THEN 31
    ELSE IF (y % 4 = 0 /\ y % 100 # 0) \/ y % 400 = 0 THEN 29
    ELSE 28

to_datetime(c) ==
    CASE c.k = "na"   -> NA
      [] c.k = "date" -> c
      [] c.k = "txt"  ->
            LET t  == str_strip(c.s)
                y  == IntOf(SubSeq(t, 1, 4))
                mo == IntOf(SubSeq(t, 6, 7))
                d  == IntOf(SubSeq(t, 9, 10))
            IN  IF /\ Len(t) = 10
                   /\ IsDigits(SubSeq(t, 1, 4) \o SubSeq(t, 6, 7) \o SubSeq(t, 9, 10))
                   /\ Ch(t, 5) = "-" /\ Ch(t, 8) = "-"
                   /\ mo \in 1..12 /\ d \in 1..DaysIn(y, mo)
                THEN Date(y, mo, d)
                ELSE NA

coerce_date(df, col) ==
    IF ~HasColumn(df, col) THEN Ok(df)
    ELSE IF ~IsSeries(df, col) THEN Raise
    ELSE LET series == GetSeries(df, col)
         IN  Ok(SetColumn(df, col, [i \in DOMAIN series |-> to_datetime(series[i])]))

\* if c in df.columns: df[c] = to_number(df[c])
number_column(df, c) ==
    IF ~HasColumn(df, c) THEN Ok(df)
    ELSE IF ~IsSeries(df, c) THEN Raise
    ELSE Ok(SetColumn(df, c, to_number(GetSeries(df, c))))

(***************************************************************************)
(* float64 arithmetic of the derived fields, on exact ratios.              *)
(***************************************************************************)
\* a - b
Minus(a, b) ==
    IF a.k # "num" \/ b.k # "num" THEN NA
    ELSE Ratio(a.n * b.d - b.n * a.d, a.d * b.d)

\* a * b for numbers, the factors cancelled before they are multiplied
Times(a, b) ==
    LET g1 == GCD(a.n, b.d)
        g2 == GCD(b.n, a.d)
    IN  Ratio((a.n \div g1) * (b.n \div g2), (a.d \div g2) * (b.d \div g1))

\* (a / b) * 100: x / 0 is an infinity, 0 / 0 and anything missing is NaN
Percent(a, b) ==
    IF a.k # "num" \/ b.k # "num" THEN NA
    ELSE IF b.n = 0 THEN (IF a.n = 0 THEN NA ELSE Inf(a.n < 0))
    ELSE LET inv == IF b.n < 0 THEN Ratio(-b.d, -b.n) ELSE Ratio(b.d, b.n)
         IN  Times(Times(a, inv), Ratio(100, 1))

(***************************************************************************)
(* The four cleaners; their alias tables stand with apply_aliases above.   *)
(***************************************************************************)
\* a plausible slip: the difference is taken whenever both operands are
\* there, over a monto_utilizado the input supplied
derive_fields_overwrite(df) ==
    LET d1 == IF HasColumn(df, "saldo_disponible")
              THEN LET a == GetSeries(df, "monto_aprobado")
                       b == GetSeries(df, "saldo_disponible")
                   IN  SetColumn(df, "monto_utilizado",
                                 [i \in DOMAIN a |-> Minus(a[i], b[i])])
              ELSE df
    IN  IF ~HasColumn(df, "monto_aprobado") THEN df
        ELSE IF HasColumn(d1, "monto_utilizado")
        THEN LET u == GetSeries(d1, "monto_utilizado")
                 a == GetSeries(d1, "monto_aprobado")
             IN  SetColumn(d1, "uso_pct", [i \in DOMAIN u |-> Percent(u[i], a[i])])
        ELSE d1

\* a plausible slip: a missing operand counts as zero (fillna(0))
derive_fields_fill_zero(df) ==
    LET Z(c) == IF c.k = "num" THEN c ELSE Ratio(0, 1)
        d1 == IF HasColumn(df, "saldo_disponible") /\ ~HasColumn(df, "monto_utilizado")
              THEN LET a == GetSeries(df, "monto_aprobado")
                       b == GetSeries(df, "saldo_disponible")
                   IN  SetColumn(df, "monto_utilizado",
                                 [i \in DOMAIN a |-> Minus(a[i], b[i])])
              ELSE df
    IN  IF ~HasColumn(df, "monto_aprobado") THEN df
        ELSE IF HasColumn(d1, "monto_utilizado")
        THEN LET u == GetSeries(d1, "monto_utilizado")
                 a == GetSeries(d1, "monto_aprobado")
             IN  SetColumn(d1, "uso_pct",
                           [i \in DOMAIN u |-> Percent(Z(u[i]), a[i])])
        ELSE d1

\* the derived fields; the three monto columns are Series here, since
\* number_column raised on any that was not
derive_fields(df) ==
    LET d1 == IF HasColumn(df, "saldo_disponible") /\ ~HasColumn(df, "monto_utilizado")
              THEN LET a == GetSeries(df, "monto_aprobado")
                       b == GetSeries(df, "saldo_disponible")
                   IN  SetColumn(df, "monto_utilizado",
                                 [i \in DOMAIN a |-> Minus(a[i], b[i])])
              ELSE df
    IN  IF ~HasColumn(df, "monto_aprobado") THEN df
        ELSE IF HasColumn(d1, "monto_utilizado")
        THEN LET u == GetSeries(d1, "monto_utilizado")
                 a == GetSeries(d1, "monto_aprobado")
             IN  SetColumn(d1, "uso_pct", [i \in DOMAIN u |-> Percent(u[i], a[i])])
        ELSE d1

clean_lines(df) ==
    LET r0 == Ok(apply_aliases(df, lines_aliases))
        r1 == Bind(r0, LAMBDA d : clean_text(d, "esfs", TRUE))
        r2 == Bind(r1, LAMBDA d : clean_text(d, "tipo_linea", FALSE))
        r3 == Bind(r2, LAMBDA d : coerce_date(d, "fecha_vigencia"))
        r4 == Bind(r3, LAMBDA d : number_column(d, "monto_aprobado"))
        r5 == Bind(r4, LAMBDA d : number_column(d, "saldo_disponible"))
        r6 == Bind(r5, LAMBDA d : number_column(d, "monto_utilizado"))
    IN  Bind(r6, LAMBDA d : Ok(derive_fields(d)))

clean_disbursements(df) ==
    LET r0 == Ok(apply_aliases(df, disbursements_aliases))
        r1 == Bind(r0, LAMBDA d : clean_text(d, "ifi", TRUE))
        r2 == Bind(r1, LAMBDA d : coerce_date(d, "fecha"))
    IN  Bind(r2, LAMBDA d : number_column(d, "monto_desembolso"))

\* the dict given to Series.replace
estado_synonyms ==
    << <<"enviado", "recibido">>,
       <<"ok", "aprobado">>,
       <<"aprobada", "aprobado">>,
       <<"observada", "observado">> >>

\* a plausible slip: the keys are replaced wherever they occur in the cell
\* (regex=True); here at its start
replace_prefix(v, mapping) ==
    LET Starts(i) == /\ Len(v) >= Len(mapping[i][1])
                     /\ SubSeq(v, 1, Len(mapping[i][1])) = mapping[i][1]
    IN  IF \E i \in DOMAIN mapping : Starts(i)
        THEN LET i == CHOOSE j \in DOMAIN mapping : Starts(j)
             IN  mapping[i][2] \o SubSeq(v, Len(mapping[i][1]) + 1, Len(v))
        ELSE v

\* Series.replace on one cell: a cell equal to a key becomes its value
replace_whole(v, mapping) ==
    IF \E i \in DOMAIN mapping : mapping[i][1] = v
    THEN mapping[CHOOSE i \in DOMAIN mapping : mapping[i][1] = v][2]
    ELSE v

\* lines 184-192; estado is a Series here, since clean_text raised if not
standardize_estado(df) ==
    IF ~HasColumn(df, "estado") THEN df
    ELSE LET series == GetSeries(df, "estado")
             s == [i \in DOMAIN series |->
                      Txt(replace_whole(str_lower(str_strip(astype_str(series, i))),
                                        estado_synonyms))]
         IN  SetColumn(df, "estado", s)

clean_splaft(df) ==
    LET r0 == Ok(apply_aliases(df, splaft_aliases))
        r1 == Bind(r0, LAMBDA d : clean_text(d, "esfs", TRUE))
        r2 == Bind(r1, LAMBDA d : clean_text(d, "documento", FALSE))
        r3 == Bind(r2, LAMBDA d : clean_text(d, "estado", FALSE))
        r4 == Bind(r3, LAMBDA d : coerce_date(d, "fecha_actualizacion"))
    IN  Bind(r4, LAMBDA d : Ok(standardize_estado(d)))

clean_contacts(df) ==
    LET r0 == Ok(apply_aliases(df, contacts_aliases))
        r1 == Bind(r0, LAMBDA d : clean_text(d, "institucion", TRUE))
        r2 == Bind(r1, LAMBDA d : clean_text(d, "nombre", FALSE))
        r3 == Bind(r2, LAMBDA d : clean_text(d, "cargo", FALSE))
        r4 == Bind(r3, LAMBDA d : clean_text(d, "correo", FALSE))
        r5 == Bind(r4, LAMBDA d : clean_text(d, "telefono", FALSE))
    IN  Bind(r5, LAMBDA d : coerce_date(d, "ultima_actualizacion"))

\* app.py, tab 4: the rows counted as lacking col; 0 without the column
missing_count(df, col) ==
    IF ~HasColumn(df, col) THEN 0
    ELSE LET series == GetSeries(df, col)
         IN  Cardinality({i \in DOMAIN series :
                 series[i] = NA \/ str_strip(astype_str(series, i)) = ""})

(***************************************************************************)
(* The variables a specification does not use keep these values.           *)
(***************************************************************************)
NameIdle == label = "" /\ name1 = "" /\ name2 = ""

NumIdle == raw = "" /\ parsed = NA

CleanIdle == dataset = "" /\ table = <<>> /\ cleaned = Raise /\ recleaned = Raise

AppIdle ==
    /\ uploads = <<>>
    /\ use_samples = FALSE
    /\ sample_dir = <<>>
    /\ frames = <<>>
    /\ errors = 0

(***************************************************************************)
(* Specification SpecName: normalize_colname applied to a label, then to   *)
(* its own result.                                                         *)
(***************************************************************************)
LabelAlphabet == {"a", "B", "1", "_", " ", "\t", "-"}

Labels == Texts(LabelAlphabet, MaxLabelLen)

InitName ==
    /\ pc = "label"
    /\ label \in Labels
    /\ name1 = ""
    /\ name2 = ""
    /\ NumIdle
    /\ CleanIdle
    /\ AppIdle

Normalize ==
    /\ pc = "label"
    /\ name1' = normalize_colname(label)
    /\ pc' = "normalized"
    /\ UNCHANGED <<label, name2, numVars, cleanVars, appVars>>

NormalizeAgain ==
    /\ pc = "normalized"
    /\ name2' = normalize_colname(name1)
    /\ pc' = "renormalized"
    /\ UNCHANGED <<label, name1, numVars, cleanVars, appVars>>

NextName == Normalize \/ NormalizeAgain

SpecName == InitName /\ [][NextName]_vars

\* C7: a normalized label holds only [a-z0-9_], has no leading, trailing or
\* doubled underscore, and normalizing it again changes nothing.
IsCanonicalName(s) ==
    /\ CharsOf(s) \subseteq ColnameChars
    /\ s # "" => (Head(s) # "_" /\ Ch(s, Len(s)) # "_")
    /\ \A i \in 1..(Len(s) - 1) : ~(Ch(s, i) = "_" /\ Ch(s, i + 1) = "_")

C7_NormalizeCanonicalIdempotent ==
    /\ pc \in {"normalized", "renormalized"} => IsCanonicalName(name1)
    /\ pc = "renormalized" => name2 = name1

C7_Witness ==
    /\ pc = "renormalized"
    /\ label = "a_-_B"
    /\ name1 = "a_b"
(***************************************************************************)
(* Specification SpecNum: to_number applied to a Series of one text cell.  *)
(***************************************************************************)
NumAlphabet == {"0", "1", ".", ",", "-", " ", "a"}

\* the examples of the docstring and of the specification's test list
NumExamples ==
    {"S/ 1,230.50", "1 230,50", "1.234,56", "1234,56", "abc", "", "-45.5"}

NumTexts == Texts(NumAlphabet, MaxNumLen) \cup NumExamples

InitNum ==
    /\ pc = "text"
    /\ raw \in NumTexts
    /\ parsed = NA
    /\ NameIdle
    /\ CleanIdle
    /\ AppIdle

ToNumber ==
    /\ pc = "text"
    /\ parsed' = to_number(<<Txt(raw)>>)[1]
    /\ pc' = "parsed"
    /\ UNCHANGED <<raw, nameVars, cleanVars, appVars>>

NextNum == ToNumber

SpecNum == InitNum /\ [][NextNum]_vars

\* C1: the six examples of the specification parse to the listed values.
C1_ToNumberExamples ==
    pc = "parsed" =>
        /\ raw = "S/ 1,230.50" => parsed = Num(123050, 2)
        /\ raw = "1.234,56" => parsed = Num(123456, 2)
        /\ raw = "1234,56" => parsed = Num(123456, 2)
        /\ raw = "abc" => parsed = NA
        /\ raw = "" => parsed = NA
        /\ raw = "-45.5" => parsed = Num(-455, 1)

\* C2: the result is a number or missing, and it is missing exactly when
\* what is left after the comma rule is not a well-formed number: no
\* digit, more than one point, or a minus sign that does not lead.
Count(s, c) == Cardinality({i \in 1..Len(s) : Ch(s, i) = c})

\* what the comma rule leaves of the stripped text: with no point every
\* comma is a point, with a point the commas go
Residue(text) ==
    LET r == KeepOnly(str_strip(text), NumberChars)
    IN  IF Count(r, ".") = 0 THEN str_replace(r, ",", ".")
        ELSE KeepOnly(r, NumberChars \ {","})

WellFormedResidue(r) ==
    /\ CharsOf(r) \cap DigitChars # {}
    /\ Count(r, ".") <= 1
    /\ \A i \in 2..Len(r) : Ch(r, i) # "-"

IsNumber(c) == c.k = "num" /\ c.n \in Int /\ c.d \in Nat \ {0}

C2_ToNumberTotal ==
    pc = "parsed" =>
        /\ parsed = NA \/ IsNumber(parsed)
        /\ parsed = NA <=> ~WellFormedResidue(Residue(raw))

C2_Witness ==
    /\ pc = "parsed"
    /\ raw = "1,0,1"
    /\ parsed = NA
(***************************************************************************)
(* Specification SpecClean: a cleaner applied to a table as read_csv gives *)
(* it (distinct labels; a column is text with gaps, or numeric), then to   *)
(* its own output.                                                         *)
(***************************************************************************)
T(s) == Txt(s)

N(n) == Ratio(n, 1)

LinesColumns ==
    { Col("ESFS", <<T(" banco  uno "), NA, T("b2")>>),
      Col("Banco", <<T("Caja Sur"), T("x"), NA>>),
      Col("Tipo Linea", <<T("Revolvente"), T(" a \t b"), NA>>),
      Col("Monto Aprobado", <<T("1000"), T("S/ 1,000.50"), T("abc")>>),
      Col("monto", <<N(1000), N(0), NA>>),
      Col("saldo_disponible", <<T("400"), T("-45.5"), T("0.00001")>>),
      Col("Saldo", <<N(400), N(0), N(1200)>>),
      Col("monto_utilizado", <<T("700"), T(""), T("1234,56")>>),
      Col("Monto  Utilizado", <<N(700), N(0), NA>>),
      Col("uso_pct", <<T("55"), NA, T("x")>>),
      Col("Vigencia", <<T("2024-12-31"), T("31/31/2024"), NA>>),
      Col("Nota", <<T("a"), NA, T("b")>>),
      Col("nota!", <<NA, T("c"), T("d")>>) }

DisbursementsColumns ==
    { Col("IFI", <<T("caja  norte"), NA, T("B1")>>),
      Col("Institucion Financiera", <<T("x"), T("y"), NA>>),
      Col("Fecha", <<T("2024-02-29"), T("2023-02-29"), NA>>),
      Col("monto_desembolso", <<T("S/ 1,230.50"), T("1.234,56"), T("0.00001")>>),
      Col("Importe", <<N(10), NA, N(3)>>),
      Col("Obs", <<T("a"), NA, T("b")>>) }

SplaftColumns ==
    { Col("ESFS", <<T("banco uno"), NA, T("b2")>>),
      Col("Entidad", <<T("x"), T("y"), NA>>),
      Col("Documento", <<T("Manual  PLAFT"), NA, T(" ficha ")>>),
      Col("Estado", <<T("Enviado"), T("OK"), T("Pendiente")>>),
      Col("estado ", <<T(" en  revision "), NA, T("Aprobada")>>),
      Col("ESTADO", <<T("observada"), T("ok ya"), T("recibido")>>),
      Col("Fecha", <<T("2024-01-15"), T("x"), NA>>) }

ContactsColumns ==
    { Col("Institucion", <<T("banco uno"), NA, T("b2")>>),
      Col("IFI", <<T("x"), T("y"), NA>>),
      Col("Nombre", <<T("Ana  Paz"), NA, T("Luis")>>),
      Col("Cargo", <<T("Jefe"), T(""), NA>>),
      Col("Correo", <<T("a@x.pe"), NA, T("  ")>>),
      Col("Email", <<T("a@x.pe"), T("a@x.pe"), T("b@x.pe")>>),
      Col("Telefono", <<NA, T("999 111"), T("")>>),
      Col("Celular", <<N(999), N(998), N(997)>>) }

Datasets == {"lines", "disbursements", "splaft", "contacts"}

ColumnsOf(ds) ==
    CASE ds = "lines"         -> LinesColumns
      [] ds = "disbursements" -> DisbursementsColumns
      [] ds = "splaft"        -> SplaftColumns
      [] ds = "contacts"      -> ContactsColumns

\* every table of 1..n columns of pool under distinct labels
RECURSIVE Frames(_, _)
Frames(pool, n) ==
    IF n = 0 THEN {<<>>}
    ELSE LET fewer == Frames(pool, n - 1)
         IN  fewer \cup
             {Append(df, c) : df \in fewer,
                              c \in pool}

Clean(ds, df) ==
    CASE ds = "lines"         -> clean_lines(df)
      [] ds = "disbursements" -> clean_disbursements(df)
      [] ds = "splaft"        -> clean_splaft(df)
      [] ds = "contacts"      -> clean_contacts(df)

DistinctLabels(df) ==
    \A i, j \in DOMAIN df : df[i].name = df[j].name => i = j

InitClean ==
    /\ pc = "table"
    /\ dataset \in Datasets
    /\ table \in {df \in Frames(ColumnsOf(dataset), MaxCols) :
                     df # <<>> /\ DistinctLabels(df)}
    /\ cleaned = Raise
    /\ recleaned = Raise
    /\ NameIdle
    /\ NumIdle
    /\ AppIdle

CleanLines ==
    /\ pc = "table"
    /\ dataset = "lines"
    /\ cleaned' = clean_lines(table)
    /\ pc' = "cleaned"
    /\ UNCHANGED <<dataset, table, recleaned, nameVars, numVars, appVars>>

CleanDisbursements ==
    /\ pc = "table"
    /\ dataset = "disbursements"
    /\ cleaned' = clean_disbursements(table)
    /\ pc' = "cleaned"
    /\ UNCHANGED <<dataset, table, recleaned, nameVars, numVars, appVars>>

CleanSplaft ==
    /\ pc = "table"
    /\ dataset = "splaft"
    /\ cleaned' = clean_splaft(table)
    /\ pc' = "cleaned"
    /\ UNCHANGED <<dataset, table, recleaned, nameVars, numVars, appVars>>

CleanContacts ==
    /\ pc = "table"
    /\ dataset = "contacts"
    /\ cleaned' = clean_contacts(table)
    /\ pc' = "cleaned"
    /\ UNCHANGED <<dataset, table, recleaned, nameVars, numVars, appVars>>

\* the cleaner on its own output, when it returned one
CleanAgain ==
    /\ pc = "cleaned"
    /\ cleaned.ok
    /\ recleaned' = Clean(dataset, cleaned.df)
    /\ pc' = "recleaned"
    /\ UNCHANGED <<dataset, table, cleaned, nameVars, numVars, appVars>>

NextClean ==
    \/ CleanLines
    \/ CleanDisbursements
    \/ CleanSplaft
    \/ CleanContacts
    \/ CleanAgain

SpecClean == InitClean /\ [][NextClean]_vars

\* the canonical name clean_lines gives a raw label
LinesName(raw_label) ==
    RenameTo(RenameMaps[lines_aliases], normalize_colname(raw_label))

\* the table without the columns that a column further right shadows
RECURSIVE KeepRightmost(_)
KeepRightmost(df) ==
    IF df = <<>> THEN <<>>
    ELSE IF \E j \in 2..Len(df) : LinesName(df[j].name) = LinesName(df[1].name)
         THEN KeepRightmost(Tail(df))
         ELSE <<df[1]>> \o KeepRightmost(Tail(df))

UniqueNames(df) ==
    \A i, j \in DOMAIN df : df[i].name = df[j].name => i = j

\* C3: when input columns of clean_lines normalize to one canonical name the
\* call does not raise and the output has one column of that name, holding
\* the rightmost input column: the result is that of the table with the
\* shadowed columns dropped.
C3_CollisionLastWriteWins ==
    (pc # "table" /\ dataset = "lines") =>
        /\ cleaned.ok
        /\ UniqueNames(cleaned.df)
        /\ cleaned = clean_lines(KeepRightmost(table))

\* the input of clean_lines under its canonical column names
LinesInput == apply_aliases(table, lines_aliases)

LinesDone == pc # "table" /\ dataset = "lines" /\ cleaned.ok

\* C4: monto_utilizado is the difference monto_aprobado - saldo_disponible
\* only when the input has no monto_utilizado column and has both
\* operands; a supplied monto_utilizado keeps its parsed values.
C4_UtilizadoNotOverwritten ==
    LinesDone =>
        IF HasColumn(LinesInput, "monto_utilizado")
        THEN GetSeries(cleaned.df, "monto_utilizado")
                = to_number(GetSeries(LinesInput, "monto_utilizado"))
        ELSE /\ HasColumn(cleaned.df, "monto_utilizado")
                   <=> (HasColumn(LinesInput, "monto_aprobado")
                        /\ HasColumn(LinesInput, "saldo_disponible"))
             /\ HasColumn(cleaned.df, "monto_utilizado") =>
                   LET u == GetSeries(cleaned.df, "monto_utilizado")
                       a == GetSeries(cleaned.df, "monto_aprobado")
                       b == GetSeries(cleaned.df, "saldo_disponible")
                   IN  \A i \in DOMAIN u :
                         IF a[i].k = "num" /\ b[i].k = "num"
                         THEN u[i].k = "num" /\ Minus(a[i], u[i]) = b[i]
                         ELSE u[i] = NA

\* aprobado 1000, saldo 400, utilizado 700 supplied: utilizado stays 700
C4_Witness ==
    /\ LinesDone
    /\ HasColumn(LinesInput, "monto_utilizado")
    /\ HasColumn(LinesInput, "saldo_disponible")
    /\ HasColumn(LinesInput, "monto_aprobado")
    /\ GetSeries(cleaned.df, "monto_aprobado")[1] = N(1000)
    /\ GetSeries(cleaned.df, "saldo_disponible")[1] = N(400)
    /\ GetSeries(cleaned.df, "monto_utilizado")[1] = N(700)
    /\ GetSeries(cleaned.df, "uso_pct")[1] = N(70)

\* the rows of uso_pct are monto_utilizado / monto_aprobado * 100, not
\* clamped, and missing where an operand is missing
UsoPctRows ==
    LET p == GetSeries(cleaned.df, "uso_pct")
        u == GetSeries(cleaned.df, "monto_utilizado")
        a == GetSeries(cleaned.df, "monto_aprobado")
    IN  \A i \in DOMAIN p :
          IF u[i].k # "num" \/ a[i].k # "num" THEN p[i] = NA
          ELSE IF a[i].n # 0
               THEN p[i].k = "num" /\ Times(p[i], a[i]) = Times(u[i], N(100))
               ELSE IF u[i].n # 0 THEN p[i] = Inf(u[i].n < 0) ELSE p[i] = NA

BothMontos ==
    HasColumn(cleaned.df, "monto_utilizado") /\ HasColumn(cleaned.df, "monto_aprobado")

\* C5 as stated: uso_pct is in the output exactly when monto_utilizado and
\* monto_aprobado both are, and then holds the quotient row by row.
C5_UsoPctAsStated ==
    LinesDone =>
        /\ HasColumn(cleaned.df, "uso_pct") <=> BothMontos
        /\ BothMontos => UsoPctRows

\* C5 amended: uso_pct is in the output exactly when both monto columns are
\* or the input supplied a uso_pct column; when both monto columns are, it
\* holds the quotient row by row, missing where an operand is missing.
C5_UsoPctDerived ==
    LinesDone =>
        /\ HasColumn(cleaned.df, "uso_pct")
              <=> (BothMontos \/ HasColumn(LinesInput, "uso_pct"))
        /\ BothMontos => UsoPctRows

\* derived utilizado 600 of 1000 is 60 percent; 1046 of 1000.5 is above
\* 100 and stays so; an unparseable aprobado leaves uso_pct missing
C5_Witness ==
    /\ LinesDone
    /\ ~HasColumn(LinesInput, "monto_utilizado")
    /\ HasColumn(cleaned.df, "uso_pct")
    /\ GetSeries(cleaned.df, "uso_pct") = <<N(60), Ratio(209200, 2001), NA>>

\* the columns clean_contacts hands to clean_text
ContactTextColumns == {"institucion", "nombre", "cargo", "correo", "telefono"}

ContactsInput == apply_aliases(table, contacts_aliases)

MissingCells(df, col) ==
    IF ~HasColumn(df, col) THEN {}
    ELSE {i \in DOMAIN GetSeries(df, col) : GetSeries(df, col)[i] = NA}

\* C6: a cell that is missing before clean_text is missing after it, and a
\* contact without correo or telefono is counted as missing after
\* clean_contacts.
C6_MissingPreserved ==
    (pc # "table" /\ dataset = "contacts" /\ cleaned.ok) =>
        /\ \A col \in ContactTextColumns :
              MissingCells(ContactsInput, col) \subseteq MissingCells(cleaned.df, col)
        /\ \A col \in {"correo", "telefono"} :
              missing_count(cleaned.df, col) >= Cardinality(MissingCells(ContactsInput, col))

\* the synonym table of the specification
EstadoCanon(v) ==
    CASE v = "enviado"   -> "recibido"
      [] v = "ok"        -> "aprobado"
      [] v = "aprobada"  -> "aprobado"
      [] v = "observada" -> "observado"
      [] OTHER           -> v

SplaftInput == apply_aliases(table, splaft_aliases)

SplaftDone ==
    /\ pc # "table" /\ dataset = "splaft" /\ cleaned.ok
    /\ HasColumn(cleaned.df, "estado")

\* C8 as stated: estado is trimmed, lowercased and mapped by the table,
\* nothing else changes, and a second pass changes nothing.
C8_EstadoAsStated ==
    /\ SplaftDone =>
          LET in  == GetSeries(SplaftInput, "estado")
              out == GetSeries(cleaned.df, "estado")
          IN  \A i \in DOMAIN in :
                in[i].k = "txt" =>
                    out[i] = Txt(EstadoCanon(str_lower(str_strip(in[i].s))))
    /\ (SplaftDone /\ pc = "recleaned") =>
          GetSeries(recleaned.df, "estado") = GetSeries(cleaned.df, "estado")

\* C8 amended: a text estado is trimmed, its inner runs of whitespace made
\* one space, lowercased, then mapped by the table as a whole cell; a
\* second pass changes nothing.
C8_EstadoCanonical ==
    /\ SplaftDone =>
          LET in  == GetSeries(SplaftInput, "estado")
              out == GetSeries(cleaned.df, "estado")
          IN  \A i \in DOMAIN in :
                in[i].k = "txt" =>
                    out[i] = Txt(EstadoCanon(str_lower(
                                 SubRuns(str_strip(in[i].s), Whitespace, " "))))
    /\ (SplaftDone /\ pc = "recleaned") =>
          GetSeries(recleaned.df, "estado") = GetSeries(cleaned.df, "estado")

C8_Witness ==
    /\ SplaftDone
    /\ pc = "recleaned"
    /\ GetSeries(SplaftInput, "estado") = <<T("Enviado"), T("OK"), T("Pendiente")>>
    /\ GetSeries(recleaned.df, "estado") = <<T("recibido"), T("aprobado"), T("pendiente")>>

\* C9: a cleaner applied to its own output returns it unchanged.
C9_CleanIdempotent ==
    pc = "recleaned" => recleaned = cleaned
(***************************************************************************)
(* Specification SpecApp: the load phase of app.py, lines 78-102.  A file  *)
(* is its name and what pd.read_csv / pd.read_excel makes of its bytes: a  *)
(* table, or an exception.  The uploaders accept the extensions csv, xlsx  *)
(* and xls only, so no other name reaches read_any here.                   *)
(***************************************************************************)
None == [some |-> FALSE, df |-> <<>>]

Some(df) == [some |-> TRUE, df |-> df]

\* the uploader's None
NoFile == [name |-> "", content |-> Raise]

File(name, content) == [name |-> name, content |-> content]

EndsWith(s, suffix) ==
    Len(s) >= Len(suffix) /\ SubSeq(s, Len(s) - Len(suffix) + 1, Len(s)) = suffix

read_any(uploaded_file) ==
    LET name == str_lower(uploaded_file.name)
    IN  IF EndsWith(name, ".csv") THEN uploaded_file.content
        ELSE IF EndsWith(name, ".xlsx") \/ EndsWith(name, ".xls")
             THEN uploaded_file.content
        ELSE Raise

\* sample_dir[ds] is None when the template does not exist
read_sample(ds) ==
    IF ~sample_dir[ds].some THEN Raise ELSE Ok(sample_dir[ds].df)

\* a table the cleaner accepts, and one with two labels of one canonical
\* name, on which it raises
GoodTable(ds) ==
    CASE ds = "lines" ->
            <<Col("ESFS", <<T("b1")>>), Col("Monto", <<T("1000")>>),
              Col("Saldo", <<T("400")>>)>>
      [] ds = "disbursements" ->
            <<Col("IFI", <<T("c1")>>), Col("Importe", <<T("10")>>)>>
      [] ds = "splaft" ->
            <<Col("Entidad", <<T("b1")>>), Col("Estado", <<T("OK")>>)>>
      [] ds = "contacts" ->
            <<Col("IFI", <<T("c1")>>), Col("Email", <<T("a@x.pe")>>)>>

ClashTable(ds) ==
    CASE ds = "lines" ->
            <<Col("ESFS", <<T("b1")>>), Col("Banco", <<T("b1")>>)>>
      [] ds = "disbursements" ->
            <<Col("IFI", <<T("c1")>>), Col("Institucion", <<T("c1")>>)>>
      [] ds = "splaft" ->
            <<Col("Estado", <<T("OK")>>), Col("ESTADO ", <<T("ok")>>)>>
      [] ds = "contacts" ->
            <<Col("Email", <<T("a@x.pe")>>), Col("Mail", <<T("a@x.pe")>>)>>

Uploads(ds) ==
    { NoFile,
      File("datos.csv", Ok(GoodTable(ds))),
      File("DATOS.XLSX", Ok(GoodTable(ds))),
      File("datos.xls", Raise),
      File("datos.csv", Ok(ClashTable(ds))) }

SampleDirs ==
    { [ds \in Datasets |-> Some(GoodTable(ds))],
      [ds \in Datasets |-> IF ds = "splaft" THEN None ELSE Some(GoodTable(ds))],
      [ds \in Datasets |-> None] }

\* one of the four if/elif statements of the try block: the frame it
\* assigns, or the exception that leaves the block
LoadOne(ds) ==
    IF uploads[ds] # NoFile
    THEN Bind(read_any(uploads[ds]), LAMBDA d : Clean(ds, d))
    ELSE IF use_samples
         THEN Bind(read_sample(ds), LAMBDA d : Clean(ds, d))
         ELSE Raise

\* neither branch of the statement is taken
Skipped(ds) == uploads[ds] = NoFile /\ ~use_samples

InitApp ==
    /\ pc = "load_lines"
    /\ uploads \in [Datasets -> UNION {Uploads(ds) : ds \in Datasets}]
    /\ \A ds \in Datasets : uploads[ds] \in Uploads(ds)
    /\ use_samples \in BOOLEAN
    /\ sample_dir \in SampleDirs
    /\ frames = [ds \in Datasets |-> None]
    /\ errors = 0
    /\ NameIdle
    /\ NumIdle
    /\ CleanIdle

\* the statement for ds, then on to the statement at after
Load(ds, at, after) ==
    /\ pc = at
    /\ \/ /\ Skipped(ds)
          /\ pc' = after
          /\ UNCHANGED frames
       \/ /\ ~Skipped(ds)
          /\ LoadOne(ds).ok
          /\ frames' = [frames EXCEPT ![ds] = Some(LoadOne(ds).df)]
          /\ pc' = after
       \/ /\ ~Skipped(ds)
          /\ ~LoadOne(ds).ok
          /\ pc' = "except"
          /\ UNCHANGED frames
    /\ UNCHANGED <<uploads, use_samples, sample_dir, errors, nameVars, numVars, cleanVars>>

LoadLines == Load("lines", "load_lines", "load_disb")

LoadDisbursements == Load("disbursements", "load_disb", "load_splaft")

LoadSplaft == Load("splaft", "load_splaft", "load_contacts")

LoadContacts == Load("contacts", "load_contacts", "tabs")

\* except Exception as e: st.error(...)
ReportError ==
    /\ pc = "except"
    /\ errors' = errors + 1
    /\ pc' = "tabs"
    /\ UNCHANGED <<uploads, use_samples, sample_dir, frames, nameVars, numVars, cleanVars>>

NextApp ==
    \/ LoadLines
    \/ LoadDisbursements
    \/ LoadSplaft
    \/ LoadContacts
    \/ ReportError

SpecApp == InitApp /\ [][NextApp]_vars

\* C10: a dataset that fails to load is reported once and has no frame, and
\* every other dataset whose input is there and loads is loaded and
\* cleaned, whether it comes before or after the failing one.
C10_LoadsIndependent ==
    pc = "tabs" =>
        /\ errors <= 1
        /\ \A ds \in Datasets :
              /\ (~Skipped(ds) /\ ~LoadOne(ds).ok) => ~frames[ds].some
              /\ (~Skipped(ds) /\ LoadOne(ds).ok) => frames[ds] = Some(LoadOne(ds).df)
====
